---------------------------- MODULE Spec2Model ----------------------------
(***************************************************************************)
(* Belgian bank statement import: the CSV parser (services/csvParser.js),  *)
(* the upload route (POST /api/upload) and the two tables it writes        *)
(* (sql/init.sql: transactions, import_logs).                              *)
(*                                                                         *)
(* A JavaScript string is a sequence of one-character strings.  null is    *)
(* the one-element sequence Null, whose element is no character, and       *)
(* undefined is Undefined, likewise.                                       *)
(***************************************************************************)
EXTENDS Integers, Sequences, FiniteSets, TLC

Null == <<"null">>

Undefined == <<"undefined">>

\* JavaScript truthiness of a string, null or undefined: null, undefined and ''
\* are falsy.
Truthy(s) == s # Null /\ s # Undefined /\ s # <<>>

\* a || b
OrElse(a, b) == IF Truthy(a) THEN a ELSE b

IsWs(c) == c = " "

DigitChars == <<"0", "1", "2", "3", "4", "5", "6", "7", "8", "9">>

IsDigit(c) == \E k \in 1..10 : DigitChars[k] = c

DigitVal(c) == (CHOOSE k \in 1..10 : DigitChars[k] = c) - 1

RECURSIVE TrimLeft(_)
TrimLeft(s) == IF s # <<>> /\ IsWs(Head(s)) THEN TrimLeft(Tail(s)) ELSE s

RECURSIVE TrimRight(_)
TrimRight(s) ==
    IF s # <<>> /\ IsWs(s[Len(s)]) THEN TrimRight(SubSeq(s, 1, Len(s) - 1)) ELSE s

\* String.prototype.trim
trim(s) == TrimRight(TrimLeft(s))

\* value?.toString().trim(): undefined for a column the row does not have.
OptionalTrim(value) == IF value = Undefined THEN Undefined ELSE trim(value)

\* Length of the longest prefix of s whose characters all satisfy the test.
RECURSIVE DigitRun(_)
DigitRun(s) == IF s # <<>> /\ IsDigit(Head(s)) THEN 1 + DigitRun(Tail(s)) ELSE 0

RECURSIVE WsRun(_)
WsRun(s) == IF s # <<>> /\ IsWs(Head(s)) THEN 1 + WsRun(Tail(s)) ELSE 0

RECURSIVE NonWsRun(_)
NonWsRun(s) == IF s # <<>> /\ ~IsWs(Head(s)) THEN 1 + NonWsRun(Tail(s)) ELSE 0

Drop(s, n) == SubSeq(s, n + 1, Len(s))

Take(s, n) == SubSeq(s, 1, n)

StartsWith(s, p) == Len(s) >= Len(p) /\ Take(s, Len(p)) = p

\* Value of a sequence of decimal digits ('' is 0).
RECURSIVE DigitsToNat(_)
DigitsToNat(s) ==
    IF s = <<>> THEN 0
    ELSE 10 * DigitsToNat(Take(s, Len(s) - 1)) + DigitVal(s[Len(s)])

RECURSIVE NatToDigits(_)
NatToDigits(n) ==
    IF n < 10 THEN <<DigitChars[n + 1]>>
    ELSE NatToDigits(n \div 10) \o <<DigitChars[(n % 10) + 1]>>

\* Number.prototype.toString of an integer.
toString(n) == IF n < 0 THEN <<"-">> \o NatToDigits(-n) ELSE NatToDigits(n)

\* String.prototype.padStart(width, '0')
RECURSIVE padStart(_, _)
padStart(s, width) == IF Len(s) >= width THEN s ELSE padStart(<<"0">> \o s, width)

\* String.prototype.split(sep) for a one-character separator.
RECURSIVE split(_, _)
split(s, sep) ==
    IF \E k \in 1..Len(s) : s[k] = sep
    THEN LET k == CHOOSE j \in 1..Len(s) : s[j] = sep /\ \A h \in 1..(j - 1) : s[h] # sep
         IN  <<Take(s, k - 1)>> \o split(Drop(s, k), sep)
    ELSE <<s>>

NaN == [nan |-> TRUE, val |-> 0]

\* parseInt(s) with no radix, on strings holding no 'x': leading white space,
\* an optional sign, then the longest run of digits; NaN without a digit.
parseInt(s) ==
    LET t    == TrimLeft(s)
        neg  == t # <<>> /\ Head(t) = "-"
        sgn  == t # <<>> /\ Head(t) \in {"-", "+"}
        body == IF sgn THEN Tail(t) ELSE t
        n    == DigitRun(body)
    IN  IF n = 0 THEN NaN
        ELSE [nan |-> FALSE,
              val |-> IF neg THEN -DigitsToNat(Take(body, n))
                             ELSE DigitsToNat(Take(body, n))]

\* csvParser.parseDate: DD/MM/YYYY to YYYY-MM-DD, or null.
parseDate(dateStr) ==
    IF ~Truthy(dateStr) \/ trim(dateStr) = <<>> THEN Null
    ELSE LET parts == split(dateStr, "/")
         IN  IF Len(parts) # 3 THEN Null
             ELSE LET day   == parseInt(parts[1])
                      month == parseInt(parts[2])
                      year  == parseInt(parts[3])
                  IN  IF day.nan \/ month.nan \/ year.nan THEN Null
                      ELSE IF day.val < 1 \/ day.val > 31
                              \/ month.val < 1 \/ month.val > 12 THEN Null
                      ELSE toString(year.val) \o <<"-">>
                           \o padStart(toString(month.val), 2) \o <<"-">>
                           \o padStart(toString(day.val), 2)

\* A number is num / 10^scale, with no trailing zero in num unless scale = 0;
\* nan marks NaN (and, for parseAmount, null).
NaNAmount == [nan |-> TRUE, num |-> 0, scale |-> 0]

RECURSIVE Normalize(_, _)
Normalize(num, scale) ==
    IF scale > 0 /\ num % 10 = 0 THEN Normalize(num \div 10, scale - 1)
    ELSE [nan |-> FALSE, num |-> num, scale |-> scale]

\* parseFloat(s) on strings of digits, '.', ',' and '-': an optional sign, digits,
\* an optional '.' and digits; the rest of the string is ignored.
parseFloat(s) ==
    LET neg  == s # <<>> /\ Head(s) = "-"
        body == IF neg THEN Tail(s) ELSE s
        ni   == DigitRun(body)
        rest == Drop(body, ni)
        dot  == rest # <<>> /\ Head(rest) = "."
        nf   == IF dot THEN DigitRun(Tail(rest)) ELSE 0
        mant == DigitsToNat(Take(body, ni) \o (IF dot THEN Take(Tail(rest), nf) ELSE <<>>))
    IN  IF ni = 0 /\ nf = 0 THEN NaNAmount
        ELSE Normalize(IF neg THEN -mant ELSE mant, nf)

\* amountStr.replace(/[^\d,.-]/g, '')
KeepAmountChar(c) == IsDigit(c) \/ c \in {",", ".", "-"}

\* cleaned.replace(',', '.'): the first comma only.
ReplaceFirstComma(s) ==
    IF \E k \in 1..Len(s) : s[k] = ","
    THEN LET k == CHOOSE j \in 1..Len(s) : s[j] = "," /\ \A h \in 1..(j - 1) : s[h] # ","
         IN  [s EXCEPT ![k] = "."]
    ELSE s

\* csvParser.parseAmount: the amount, or null (nan).
parseAmount(amountStr) ==
    IF ~Truthy(amountStr) \/ trim(amountStr) = <<>> THEN NaNAmount
    ELSE parseFloat(ReplaceFirstComma(SelectSeq(amountStr, KeepAmountChar)))

\* csvParser.parsePostalCodeCity: /^(\d+)\s+(.+)$/
parsePostalCodeCity(postalCodeCity) ==
    IF ~Truthy(postalCodeCity) \/ trim(postalCodeCity) = <<>>
    THEN [postalCode |-> Null, city |-> Null]
    ELSE LET nd   == DigitRun(postalCodeCity)
             rest == Drop(postalCodeCity, nd)
             nw   == WsRun(rest)
             tail == Drop(rest, nw)
         IN  IF nd >= 1 /\ nw >= 1 /\ (tail # <<>> \/ nw >= 2)
             THEN [postalCode |-> trim(Take(postalCodeCity, nd)), city |-> trim(tail)]
             ELSE [postalCode |-> Null, city |-> trim(postalCodeCity)]

IsHex(c) == IsDigit(c) \/ c \in {"a", "b", "c", "d", "e", "f"}

RECURSIVE HexRun(_)
HexRun(s) == IF s # <<>> /\ IsHex(Head(s)) THEN 1 + HexRun(Tail(s)) ELSE 0

RefMarker == <<"R", "E", "F", ".">>

PayconiqMarker == <<"P", "a", "y", "c", "o", "n", "i", "q">>

\* /REF\.\s*:\s*([^\s]+)/ matched at the start of s: the captured token, or Null.
RefAt(s) ==
    IF ~StartsWith(s, RefMarker) THEN Null
    ELSE LET a == Drop(s, Len(RefMarker))
             b == Drop(a, WsRun(a))
         IN  IF b = <<>> \/ Head(b) # ":" THEN Null
             ELSE LET c == Drop(Tail(b), WsRun(Tail(b)))
                  IN  IF NonWsRun(c) = 0 THEN Null ELSE Take(c, NonWsRun(c))

\* /Payconiq\s+([a-f0-9]+)/ matched at the start of s.
PayconiqAt(s) ==
    IF ~StartsWith(s, PayconiqMarker) THEN Null
    ELSE LET a == Drop(s, Len(PayconiqMarker))
             b == Drop(a, WsRun(a))
         IN  IF WsRun(a) = 0 \/ HexRun(b) = 0 THEN Null ELSE Take(b, HexRun(b))

\* Mutant: the Payconiq token is looked for first.
extractReferencePayconiqFirst(description) ==
    IF ~Truthy(description) THEN Null
    ELSE LET n    == Len(description)
             refs == {k \in 1..n : RefAt(Drop(description, k - 1)) # Null}
             pays == {k \in 1..n : PayconiqAt(Drop(description, k - 1)) # Null}
             Min(S) == CHOOSE k \in S : \A h \in S : k <= h
         IN  IF pays # {} THEN PayconiqAt(Drop(description, Min(pays) - 1))
             ELSE IF refs # {} THEN RefAt(Drop(description, Min(refs) - 1))
             ELSE Null

\* csvParser.extractReference
extractReference(description) ==
    IF ~Truthy(description) THEN Null
    ELSE LET n    == Len(description)
             refs == {k \in 1..n : RefAt(Drop(description, k - 1)) # Null}
             pays == {k \in 1..n : PayconiqAt(Drop(description, k - 1)) # Null}
             Min(S) == CHOOSE k \in S : \A h \in S : k <= h
         IN  IF refs # {} THEN RefAt(Drop(description, Min(refs) - 1))
             ELSE IF pays # {} THEN PayconiqAt(Drop(description, Min(pays) - 1))
             ELSE Null


(***************************************************************************)
(* Rows.  The tokenizer (Papa.parse with header: true) is a library: its   *)
(* result is the parser's input, a list of tokenizer errors and a list of  *)
(* header-keyed rows.  A row maps each Belfius column to its raw string;   *)
(* First is the value of the file's first column (Object.values(row)[0]),  *)
(* which is Rekening in the standard column order.                         *)
(***************************************************************************)
Columns ==
    {"Rekening", "Boekingsdatum", "Rekeninguittrekselnummer", "Transactienummer",
     "RekeningTegenpartij", "NaamTegenpartijBevat", "StraatEnNummer",
     "PostcodeEnPlaats", "Transactie", "Valutadatum", "Bedrag", "Devies", "BIC",
     "Landcode", "Mededelingen"}

EUR == <<"E", "U", "R">>

BEPrefix == <<"B", "E">>

\* new Error(`Invalid booking date: ${bookingDateStr}`).message, and the like.
Message(text, arg) == <<text, arg>>

\* Mutant: only a row without account number is dropped.
LacksAccountNumber(row) == ~Truthy(OptionalTrim(row.Rekening))

\* !accountNumber || !bookingDateStr || !amountStr
LacksEssentialData(row) ==
    \/ ~Truthy(OptionalTrim(row.Rekening))
    \/ ~Truthy(OptionalTrim(row.Boekingsdatum))
    \/ ~Truthy(OptionalTrim(row.Bedrag))

\* csvParser.parseTransactionRow: a transaction, null, or a thrown Error.
parseTransactionRow(row) ==
    LET accountNumber         == OptionalTrim(row.Rekening)
        bookingDateStr        == OptionalTrim(row.Boekingsdatum)
        statementNumber       == OptionalTrim(row.Rekeninguittrekselnummer)
        transactionNumber     == OptionalTrim(row.Transactienummer)
        counterpartAccount    == OptionalTrim(row.RekeningTegenpartij)
        counterpartName       == OptionalTrim(row.NaamTegenpartijBevat)
        counterpartAddress    == OptionalTrim(row.StraatEnNummer)
        counterpartPostalCode == OptionalTrim(row.PostcodeEnPlaats)
        transactionType       == OptionalTrim(row.Transactie)
        valueDateStr          == OptionalTrim(row.Valutadatum)
        amountStr             == OptionalTrim(row.Bedrag)
        currency              == OrElse(OptionalTrim(row.Devies), EUR)
        bic                   == OptionalTrim(row.BIC)
        countryCode           == OptionalTrim(row.Landcode)
        description           == OptionalTrim(row.Mededelingen)
        bookingDate           == parseDate(bookingDateStr)
        valueDate             == parseDate(valueDateStr)
        amount                == parseAmount(amountStr)
        pc                    == parsePostalCodeCity(counterpartPostalCode)
        referenceNumber       == OrElse(extractReference(description), transactionNumber)
    IN  IF LacksEssentialData(row)
        THEN [kind |-> "null"]
        ELSE IF ~Truthy(bookingDate)
        THEN [kind |-> "throw", message |-> Message("Invalid booking date: ", bookingDateStr)]
        ELSE IF amount.nan
        THEN [kind |-> "throw", message |-> Message("Invalid amount: ", amountStr)]
        ELSE [kind |-> "ok",
              transaction |->
                [accountNumber         |-> accountNumber,
                 statementNumber       |-> OrElse(statementNumber, Null),
                 transactionNumber     |-> OrElse(transactionNumber, Null),
                 bookingDate           |-> bookingDate,
                 valueDate             |-> valueDate,
                 counterpartAccount    |-> OrElse(counterpartAccount, Null),
                 counterpartName       |-> OrElse(counterpartName, Null),
                 counterpartAddress    |-> OrElse(counterpartAddress, Null),
                 counterpartPostalCode |-> pc.postalCode,
                 counterpartCity       |-> pc.city,
                 transactionType       |-> OrElse(transactionType, Null),
                 amount                |-> amount,
                 currency              |-> currency,
                 bic                   |-> OrElse(bic, Null),
                 countryCode           |-> OrElse(countryCode, Null),
                 description           |-> OrElse(description, Null),
                 referenceNumber       |-> referenceNumber]]

\* !row || !Object.values(row).some(val => val && val.toString().trim())
IsBlankRow(row) == \A c \in DOMAIN row : ~Truthy(OptionalTrim(row[c]))

\* Mutant: any non-empty account passes, BE or not.
LooksLikeTransactionAnyAccount(row) == Truthy(OrElse(row.Rekening, row.First))

\* row['Rekening'] || Object.values(row)[0], then startsWith('BE')
LooksLikeTransaction(row) ==
    LET accountNumber == OrElse(row.Rekening, row.First)
    IN  Truthy(accountNumber) /\ StartsWith(accountNumber, BEPrefix)

\* Mutant: a row whose mapping throws discards the transactions pushed before it.
RECURSIVE CollectTransactionsNoIsolation(_, _)
CollectTransactionsNoIsolation(rows, n) ==
    IF n = 0 THEN <<>>
    ELSE LET before == CollectTransactionsNoIsolation(rows, n - 1)
             row    == rows[n]
         IN  IF IsBlankRow(row) \/ ~LooksLikeTransaction(row) THEN before
             ELSE LET r == parseTransactionRow(row)
                  IN  IF r.kind = "ok" THEN Append(before, r.transaction)
                      ELSE IF r.kind = "throw" THEN <<>> ELSE before

\* The loop of parseBelgianBankCSV over rows[1..n]: the transactions pushed.
RECURSIVE CollectTransactions(_, _)
CollectTransactions(rows, n) ==
    IF n = 0 THEN <<>>
    ELSE LET before == CollectTransactions(rows, n - 1)
             row    == rows[n]
         IN  IF IsBlankRow(row) \/ ~LooksLikeTransaction(row) THEN before
             ELSE LET r == parseTransactionRow(row)
                  IN  IF r.kind = "ok" THEN Append(before, r.transaction) ELSE before

NoValidTransactions ==
    Message("No valid transactions found in CSV file. Please check the file format.", <<>>)

\* Mutant: the tokenizer's errors are fatal only when no row maps.
parseBelgianBankCSVLenient(parsed) ==
    LET transactions == CollectTransactions(parsed.data, Len(parsed.data))
    IN  IF Len(transactions) > 0
        THEN [called |-> TRUE, success |-> TRUE, transactions |-> transactions,
              error |-> Null]
        ELSE IF Len(parsed.errors) > 0
        THEN [called |-> TRUE, success |-> FALSE, transactions |-> <<>>,
              error |-> Message("CSV parsing failed: ", parsed.errors[1])]
        ELSE [called |-> TRUE, success |-> FALSE, transactions |-> <<>>,
              error |-> NoValidTransactions]

\* csvParser.parseBelgianBankCSV on the tokenizer's result (called marks a result
\* the parser returned).
parseBelgianBankCSV(parsed) ==
    IF Len(parsed.errors) > 0
    THEN [called |-> TRUE, success |-> FALSE, transactions |-> <<>>,
          error |-> Message("CSV parsing failed: ", parsed.errors[1])]
    ELSE LET transactions == CollectTransactions(parsed.data, Len(parsed.data))
         IN  IF Len(transactions) = 0
             THEN [called |-> TRUE, success |-> FALSE, transactions |-> <<>>,
                   error |-> NoValidTransactions]
             ELSE [called |-> TRUE, success |-> TRUE, transactions |-> transactions,
                   error |-> Null]


(***************************************************************************)
(* The uploaded files.  Files with different numbers have different bytes. *)
(***************************************************************************)
BlankRow == [c \in Columns \cup {"First"} |-> <<>>]

\* A row of a file in the standard column order: Rekening is the first column.
Row(account, date, amount, counterpart, number) ==
    [BlankRow EXCEPT !.Rekening = account, !.First = account, !.Boekingsdatum = date,
                     !.Bedrag = amount, !.RekeningTegenpartij = counterpart,
                     !.Transactienummer = number]

AccountBE1 == <<"B", "E", "1">>

AccountBE9 == <<"B", "E", "9">>

AccountXX == <<"X", "X", "1">>

Date1 == <<"0", "1", "/", "0", "2", "/", "2", "0", "2", "4">>

Date2 == <<"1", "5", "/", "0", "3", "/", "2", "0", "2", "4">>

BadDate == <<"3", "1", "/", "1", "3", "/", "2", "0", "2", "4">>

Amount1 == <<"-", "1", "2", ",", "3", "0">>

Amount2 == <<"1", "0", "0">>

BadAmount == <<"a", "b", "c">>

\* A transfer to a counterpart account, and a card payment that names none.
RowTransfer == Row(AccountBE1, Date1, Amount1, AccountBE9, <<"7">>)

RowCard == Row(AccountBE1, Date2, Amount2, <<>>, <<"8">>)

\* The same two statement lines exported again with the counterpart's name filled in.
RowTransferNamed == [RowTransfer EXCEPT !.NaamTegenpartijBevat = <<"N">>]

RowCardNamed == [RowCard EXCEPT !.NaamTegenpartijBevat = <<"N">>]

RowBadAmount == Row(AccountBE1, Date1, BadAmount, AccountBE9, <<"1">>)

RowBadDate == Row(AccountBE1, BadDate, Amount2, AccountBE9, <<"2">>)

RowOther == Row(AccountBE1, Date2, Amount1, AccountBE9, <<"3">>)

\* A summary line: its account column does not start with BE.
RowSummary == Row(AccountXX, Date1, Amount1, <<>>, <<>>)

\* A line of a file whose first column is not Rekening: Rekening is empty and the
\* first column holds a counterpart account.
RowShifted == [BlankRow EXCEPT !.First = AccountBE9, !.Boekingsdatum = Date1,
                               !.Bedrag = Amount1]

TooFewFields == <<"Too few fields">>

EURO == <<"E", "U", "R", "O">>

\* The n-th line of a long statement; its Devies column holds EURO unless sound.
\* (The sound seventh line is the transfer of file 1.)
RowOfStatement(n, sound) ==
    [Row(AccountBE1, Date1, Amount1, AccountBE9, toString(n))
        EXCEPT !.Devies = IF sound THEN EUR ELSE EURO]

\* The number of lines of the long statement.
BulkRows == 12

FileContent ==
    <<[errors |-> <<>>, data |-> <<RowTransfer, RowCard>>],
      [errors |-> <<>>, data |-> <<RowCardNamed, RowTransferNamed>>],
      [errors |-> <<>>, data |-> <<>>],
      [errors |-> <<>>, data |-> <<RowSummary, RowShifted>>],
      [errors |-> <<>>, data |-> <<RowBadAmount, RowOther, RowBadDate>>],
      [errors |-> <<TooFewFields>>, data |-> <<RowSummary>>],
      [errors |-> <<>>, data |-> <<RowTransferNamed>>],
      [errors |-> <<>>, data |-> [n \in 1..BulkRows |-> RowOfStatement(n, n = 7)]],
      [errors |-> <<>>, data |-> [n \in 1..(BulkRows \div 2) |-> RowOfStatement(n, FALSE)]]>>

Files == DOMAIN FileContent

\* The files uploaded one after the other: the short ones.
SequentialFiles == 1..7

\* The files of the long statements, with a short file and the file with only a
\* header.
BulkFiles == {1, 3, 8, 9}

\* The files uploaded while other uploads are in progress: the two exports of the
\* same statement lines and the file with only a header.
ConcurrentFiles == {1, 2, 3}

NoFile == 0

\* crypto.createHash('md5').update(fileBuffer).digest('hex'): the same bytes give
\* the same digest, and the files above are taken to have different digests.
md5(f) == <<"md5", f>>

\* fileBuffer.toString('utf-8') handed to csvParser.parseBelgianBankCSV.
ParseResults == [f \in Files |-> parseBelgianBankCSV(FileContent[f])]

(***************************************************************************)
(* Storage: the tables of sql/init.sql.                                    *)
(***************************************************************************)
RECURSIVE Pow10(_)
Pow10(n) == IF n = 0 THEN 1 ELSE 10 * Pow10(n - 1)

Abs(n) == IF n < 0 THEN -n ELSE n

\* amount DECIMAL(12,2): the value in cents, rounded half away from zero.
ToDecimal2(amount) ==
    IF amount.scale <= 2 THEN amount.num * Pow10(2 - amount.scale)
    ELSE LET q == (Abs(amount.num) * 100 + (Pow10(amount.scale) \div 2))
                     \div Pow10(amount.scale)
         IN  IF amount.num < 0 THEN -q ELSE q

\* Mutant: the INSERT leaves file_hash out.
TransactionRowWithoutHash(copy, t, fileHash) ==
    [copy                |-> copy,
     account_number      |-> t.accountNumber,
     booking_date        |-> t.bookingDate,
     amount              |-> ToDecimal2(t.amount),
     counterpart_account |-> t.counterpartAccount,
     reference_number    |-> t.referenceNumber,
     file_hash           |-> Null]

\* The row that the INSERT of the upload route writes for a parsed transaction:
\* its unique-key columns and file_hash.  In place of the AUTO_INCREMENT id, rows
\* that agree on all of these are told apart by copy (1 for the first, 2 for the
\* second, ...).
TransactionRow(copy, t, fileHash) ==
    [copy                |-> copy,
     account_number      |-> t.accountNumber,
     booking_date        |-> t.bookingDate,
     amount              |-> ToDecimal2(t.amount),
     counterpart_account |-> t.counterpartAccount,
     reference_number    |-> t.referenceNumber,
     file_hash           |-> fileHash]

\* UNIQUE KEY unique_transaction: two rows conflict when they agree on the five
\* columns and none of them is NULL (a NULL is never equal to anything in a
\* unique index).
UniqueTransactionConflict(a, b) ==
    /\ a.account_number = b.account_number
    /\ a.booking_date = b.booking_date
    /\ a.amount = b.amount
    /\ a.counterpart_account = b.counterpart_account
    /\ a.reference_number = b.reference_number
    /\ a.counterpart_account # Null
    /\ a.reference_number # Null

\* Mutant: file_hash without its UNIQUE index.
NoUniqueFileHash(logs, fileHash) == FALSE

\* The VARCHAR(n) columns of transactions that the INSERT fills from the parsed
\* transaction, in the INSERT's column order.
VarcharColumns ==
    <<[field |-> "accountNumber", width |-> 50,
       message |-> "Data too long for column 'account_number'"],
      [field |-> "statementNumber", width |-> 20,
       message |-> "Data too long for column 'statement_number'"],
      [field |-> "transactionNumber", width |-> 50,
       message |-> "Data too long for column 'transaction_number'"],
      [field |-> "counterpartAccount", width |-> 50,
       message |-> "Data too long for column 'counterpart_account'"],
      [field |-> "counterpartName", width |-> 255,
       message |-> "Data too long for column 'counterpart_name'"],
      [field |-> "counterpartPostalCode", width |-> 20,
       message |-> "Data too long for column 'counterpart_postal_code'"],
      [field |-> "counterpartCity", width |-> 100,
       message |-> "Data too long for column 'counterpart_city'"],
      [field |-> "transactionType", width |-> 100,
       message |-> "Data too long for column 'transaction_type'"],
      [field |-> "currency", width |-> 3,
       message |-> "Data too long for column 'currency'"],
      [field |-> "bic", width |-> 11,
       message |-> "Data too long for column 'bic'"],
      [field |-> "countryCode", width |-> 2,
       message |-> "Data too long for column 'country_code'"],
      [field |-> "referenceNumber", width |-> 100,
       message |-> "Data too long for column 'reference_number'"]>>

\* The columns whose value does not fit (NULL fits everywhere).
TooLong(t) ==
    {k \in DOMAIN VarcharColumns :
        /\ t[VarcharColumns[k].field] # Null
        /\ Len(t[VarcharColumns[k].field]) > VarcharColumns[k].width}

\* The storage layer's error for a value that does not fit its column (strict SQL
\* mode, the default): the message for the first such column, "" when all fit.
DataTooLong(t) ==
    IF TooLong(t) = {} THEN ""
    ELSE VarcharColumns[CHOOSE k \in TooLong(t) : \A h \in TooLong(t) : k <= h].message

\* import_logs.file_hash ... NOT NULL UNIQUE
UniqueFileHashConflict(logs, fileHash) ==
    \E k \in 1..Len(logs) : logs[k].file_hash = fileHash

\* SELECT * FROM import_logs WHERE file_hash = ?, in id order; of the rows it
\* returns the route reads imported_at alone, and only id and imported_at are kept.
SelectLogsByHash(logs, fileHash) ==
    LET Matches(l) == l.file_hash = fileHash
    IN  [k \in 1..Len(SelectSeq(logs, Matches)) |->
            [id          |-> SelectSeq(logs, Matches)[k].id,
             imported_at |-> SelectSeq(logs, Matches)[k].imported_at]]

\* The row INSERT INTO import_logs (filename, file_hash, import_status) creates
\* (without filename and completed_at, which nothing reads).
NewImportLog(id, fileHash, now) ==
    [id               |-> id,
     file_hash        |-> fileHash,
     import_status    |-> "processing",
     total_records    |-> 0,
     imported_records |-> 0,
     skipped_records  |-> 0,
     error_records    |-> 0,
     error_message    |-> Null,
     imported_at      |-> now]


(***************************************************************************)
(* The upload route, POST /api/upload.  Each request is a process that     *)
(* stops at every await; pc is the statement it is about to run.           *)
(***************************************************************************)
MaxUploads == 2

\* Storage and file-system calls that may fail for reasons of their own (a lost
\* connection, a full disk) in one run.
MaxFaults == 1

\* errors.slice(0, 10) stored in the log, errors.slice(0, 5) returned.
LogErrorSample == 10

ResponseErrorSample == 5

Requests == 1..MaxUploads

VARIABLES
    import_logs,    \* the import_logs table, in id order (id = position)
    transactions,   \* the transactions table, a set of rows
    clock,          \* CURRENT_TIMESTAMP / NOW()
    faults,         \* failures injected so far
    pc,             \* per request: the statement it is at
    file,           \* per request: the uploaded file (req.file), or NoFile
    staged,         \* per request: the uploaded file is on disk at filePath
    existingLog,    \* per request: the rows the SELECT returned
    logId,          \* per request: logResult.insertId, 0 before
    i,              \* per request: the row loop's index (rows attempted)
    counts,         \* per request: importedCount, skippedCount, errorCount
    errors,         \* per request: the errors array
    response,       \* per request: the response sent
    thrown,         \* per request: what reached the outer catch, "" if nothing
    parseResult,    \* per request: what csvParser.parseBelgianBankCSV returned
    argument,       \* a direct call of a csvParser function: its argument
    returned        \* a direct call of a csvParser function: what it returned

vars == <<import_logs, transactions, clock, faults, pc, file, staged,
          existingLog, logId, i, counts, errors, response, thrown, parseResult,
          argument, returned>>

\* The variables of a direct call of a csvParser function, which the route leaves
\* alone.
call == <<argument, returned>>

\* The variables of the upload route.
route == <<import_logs, transactions, clock, faults, pc, file, staged,
           existingLog, logId, i, counts, errors, response, thrown, parseResult>>

db == <<import_logs, transactions, clock>>

loop == <<i, counts, errors>>

NoResponse == [status |-> 0, error |-> Null, importDate |-> 0, success |-> FALSE,
               summary |-> [totalRecords |-> 0, imported |-> 0, skipped |-> 0,
                            errors |-> 0],
               errors |-> <<>>]

\* res.status(status).json({ error })
ErrorResponse(status, error) == [NoResponse EXCEPT !.status = status, !.error = error]

\* Mutant: the rejection carries the time of the rejection, not of the first import.
DuplicateFileResponseNow(existing) ==
    [ErrorResponse(409, <<"File already processed", <<>>>>) EXCEPT !.importDate = clock]

\* res.status(409).json({ error: 'File already processed', importDate })
DuplicateFileResponse(existing) ==
    [ErrorResponse(409, <<"File already processed", <<>>>>)
        EXCEPT !.importDate = existing[1].imported_at]

\* Mutant: the summary's total leaves out the rows that errored.
SuccessResponseStoredOnly(total, c, errs) ==
    [NoResponse EXCEPT !.status = 200, !.success = TRUE,
                       !.summary = [totalRecords |-> c.imported + c.skipped,
                                    imported |-> c.imported,
                                    skipped |-> c.skipped, errors |-> c.errors],
                       !.errors = Take(errs, IF Len(errs) < ResponseErrorSample
                                             THEN Len(errs) ELSE ResponseErrorSample)]

\* res.json({ success: true, summary, errors: errors.slice(0, 5) })
SuccessResponse(total, c, errs) ==
    [NoResponse EXCEPT !.status = 200, !.success = TRUE,
                       !.summary = [totalRecords |-> total, imported |-> c.imported,
                                    skipped |-> c.skipped, errors |-> c.errors],
                       !.errors = Take(errs, IF Len(errs) < ResponseErrorSample
                                             THEN Len(errs) ELSE ResponseErrorSample)]

ZeroCounts == [imported |-> 0, skipped |-> 0, errors |-> 0]

\* parseResult before the parser has been called.
NotParsed == [called |-> FALSE, success |-> FALSE, transactions |-> <<>>, error |-> Null]

\* returned before the call has returned.
NotReturned == [called |-> FALSE]

\* The server has started: empty tables, no request yet.
Started ==
    /\ import_logs = <<>>
    /\ transactions = {}
    /\ clock = 1
    /\ faults = 0
    /\ pc = [r \in Requests |-> "idle"]
    /\ file = [r \in Requests |-> NoFile]
    /\ staged = [r \in Requests |-> FALSE]
    /\ existingLog = [r \in Requests |-> <<>>]
    /\ logId = [r \in Requests |-> 0]
    /\ i = [r \in Requests |-> 0]
    /\ counts = [r \in Requests |-> ZeroCounts]
    /\ errors = [r \in Requests |-> <<>>]
    /\ response = [r \in Requests |-> NoResponse]
    /\ thrown = [r \in Requests |-> ""]
    /\ parseResult = [r \in Requests |-> NotParsed]

Init ==
    /\ Started
    /\ argument = Null
    /\ returned = NotReturned

\* A storage or file-system call fails: the exception reaches the outer catch.
Throw(r, what) ==
    /\ pc' = [pc EXCEPT ![r] = "catch"]
    /\ thrown' = [thrown EXCEPT ![r] = what]

\* The call at hand fails for a reason of its own.
Fault(r, what) ==
    /\ faults < MaxFaults
    /\ faults' = faults + 1
    /\ Throw(r, what)

\* res.json(...) and return.
Respond(r, resp) ==
    /\ response' = [response EXCEPT ![r] = resp]
    /\ pc' = [pc EXCEPT ![r] = "done"]

\* The request arrives: multer has staged the upload on disk (req.file), or the
\* request carries no file; then await fs.readFile(filePath) and the digest, which
\* touch nothing another request sees.  The file is one of uploads.
Arrive(r, uploads) ==
    /\ pc[r] = "idle"
    /\ \/ /\ file' = [file EXCEPT ![r] = NoFile]
          /\ Respond(r, ErrorResponse(400, <<"No file uploaded", <<>>>>))
          /\ UNCHANGED <<staged, faults, thrown>>
       \/ \E f \in uploads :
             /\ file' = [file EXCEPT ![r] = f]
             /\ staged' = [staged EXCEPT ![r] = TRUE]
             /\ \/ pc' = [pc EXCEPT ![r] = "lookup"] /\ UNCHANGED <<faults, thrown>>
                \/ Fault(r, "readFile")
             /\ UNCHANGED response
    /\ UNCHANGED <<db, existingLog, logId, loop, parseResult>>
    /\ UNCHANGED call

\* Requests are numbered in their order of arrival; a request may arrive while
\* earlier ones are in progress.
Receive(r) ==
    /\ IF r = 1 THEN TRUE ELSE pc[r - 1] # "idle"
    /\ Arrive(r, ConcurrentFiles)

\* A client that uploads one file after the other: a request arrives when the
\* earlier ones have been answered.
ReceiveNext(r) ==
    /\ \A q \in 1..(r - 1) : pc[q] = "done"
    /\ Arrive(r, SequentialFiles)

\* The same client with the long statements.
ReceiveBulk(r) ==
    /\ \A q \in 1..(r - 1) : pc[q] = "done"
    /\ Arrive(r, BulkFiles)

\* await database.query('SELECT * FROM import_logs WHERE file_hash = ?')
Lookup(r) ==
    /\ pc[r] = "lookup"
    /\ \/ LET found == SelectLogsByHash(import_logs, md5(file[r]))
          IN  /\ existingLog' = [existingLog EXCEPT ![r] = found]
              /\ pc' = [pc EXCEPT ![r] = IF Len(found) > 0 THEN "dupUnlink"
                                                           ELSE "insertLog"]
              /\ UNCHANGED <<faults, thrown>>
       \/ Fault(r, "lookup") /\ UNCHANGED existingLog
    /\ UNCHANGED <<db, file, staged, logId, loop, response, parseResult>>
    /\ UNCHANGED call

\* Mutant: the duplicate branch refreshes the existing log's imported_at.
DupUnlinkTouchesLog(r) ==
    /\ pc[r] = "dupUnlink"
    /\ staged' = [staged EXCEPT ![r] = FALSE]
    /\ Respond(r, DuplicateFileResponse(existingLog[r]))
    /\ import_logs' = [import_logs EXCEPT ![existingLog[r][1].id].imported_at = clock]
    /\ UNCHANGED <<transactions, clock, faults, thrown, file, existingLog, logId, loop,
                   parseResult>>
    /\ UNCHANGED call

\* existingLog.length > 0: await fs.unlink(filePath), then the 409.
DupUnlink(r) ==
    /\ pc[r] = "dupUnlink"
    /\ \/ /\ staged' = [staged EXCEPT ![r] = FALSE]
          /\ Respond(r, DuplicateFileResponse(existingLog[r]))
          /\ UNCHANGED <<faults, thrown>>
       \/ Fault(r, "dupUnlink") /\ UNCHANGED <<staged, response>>
    /\ UNCHANGED <<db, file, existingLog, logId, loop, parseResult>>
    /\ UNCHANGED call

\* await database.query('INSERT INTO import_logs ...'), then the parse, which
\* runs with no storage call in between.
InsertLog(r) ==
    /\ pc[r] = "insertLog"
    /\ \/ /\ ~UniqueFileHashConflict(import_logs, md5(file[r]))
          /\ import_logs' = Append(import_logs,
                                   NewImportLog(Len(import_logs) + 1, md5(file[r]), clock))
          /\ clock' = clock + 1
          /\ logId' = [logId EXCEPT ![r] = Len(import_logs) + 1]
          /\ parseResult' = [parseResult EXCEPT ![r] = ParseResults[file[r]]]
          /\ pc' = [pc EXCEPT ![r] = IF ParseResults[file[r]].success THEN "rows"
                                                                     ELSE "failUpdate"]
          /\ UNCHANGED <<faults, thrown>>
       \/ /\ UniqueFileHashConflict(import_logs, md5(file[r]))
          /\ Throw(r, "ER_DUP_ENTRY")
          /\ UNCHANGED <<import_logs, clock, logId, parseResult, faults>>
       \/ Fault(r, "insertLog") /\ UNCHANGED <<import_logs, clock, logId, parseResult>>
    /\ UNCHANGED <<transactions, file, staged, existingLog, loop, response>>
    /\ UNCHANGED call

\* Mutant: the parse failure is recorded without its message.
FailUpdateNoMessage(r) ==
    /\ pc[r] = "failUpdate"
    /\ import_logs' = [import_logs EXCEPT ![logId[r]].import_status = "failed"]
    /\ pc' = [pc EXCEPT ![r] = "failUnlink"]
    /\ UNCHANGED <<transactions, clock, faults, thrown, file, staged, existingLog, logId,
                   loop, response, parseResult>>
    /\ UNCHANGED call

\* !parseResult.success: await database.query('UPDATE import_logs SET
\* import_status = ?, error_message = ? WHERE id = ?')
FailUpdate(r) ==
    /\ pc[r] = "failUpdate"
    /\ \/ /\ import_logs' = [import_logs EXCEPT ![logId[r]] =
                                [@ EXCEPT !.import_status = "failed",
                                          !.error_message = parseResult[r].error]]
          /\ pc' = [pc EXCEPT ![r] = "failUnlink"]
          /\ UNCHANGED <<faults, thrown>>
       \/ Fault(r, "failUpdate") /\ UNCHANGED import_logs
    /\ UNCHANGED <<transactions, clock, file, staged, existingLog, logId, loop,
                   response, parseResult>>
    /\ UNCHANGED call

\* await fs.unlink(filePath), then the 400 with the parser's error.
FailUnlink(r) ==
    /\ pc[r] = "failUnlink"
    /\ \/ /\ staged' = [staged EXCEPT ![r] = FALSE]
          /\ Respond(r, ErrorResponse(400, parseResult[r].error))
          /\ UNCHANGED <<faults, thrown>>
       \/ Fault(r, "failUnlink") /\ UNCHANGED <<staged, response>>
    /\ UNCHANGED <<db, file, existingLog, logId, loop, parseResult>>
    /\ UNCHANGED call

\* Mutant: the row loop is left after its first iteration.
AfterRowLeavesLoop(r, n) == "finalUpdate"

\* The statement after the row loop's i-th iteration.
AfterRow(r, n) == IF n >= Len(parseResult[r].transactions) THEN "finalUpdate" ELSE "rows"

\* Mutant: a row the storage rejects ends the loop in the outer catch.
InsertRowRejectionThrows(r) ==
    /\ pc[r] = "rows"
    /\ LET transaction == parseResult[r].transactions[i[r] + 1]
           first == TransactionRow(1, transaction, md5(file[r]))
           same  == {t \in transactions : [t EXCEPT !.copy = 1] = first}
           row   == [first EXCEPT !.copy = Cardinality(same) + 1]
       IN  \/ /\ DataTooLong(transaction) = ""
              /\ \A t \in transactions : ~UniqueTransactionConflict(row, t)
              /\ transactions' = transactions \cup {row}
              /\ counts' = [counts EXCEPT ![r].imported = @ + 1]
              /\ i' = [i EXCEPT ![r] = @ + 1]
              /\ pc' = [pc EXCEPT ![r] = AfterRow(r, i[r] + 1)]
              /\ UNCHANGED <<errors, faults, thrown>>
           \/ /\ DataTooLong(transaction) = ""
              /\ \E t \in transactions : UniqueTransactionConflict(row, t)
              /\ counts' = [counts EXCEPT ![r].skipped = @ + 1]
              /\ i' = [i EXCEPT ![r] = @ + 1]
              /\ pc' = [pc EXCEPT ![r] = AfterRow(r, i[r] + 1)]
              /\ UNCHANGED <<transactions, errors, faults, thrown>>
           \/ /\ DataTooLong(transaction) # ""
              /\ Throw(r, "ER_DATA_TOO_LONG")
              /\ UNCHANGED <<transactions, counts, errors, faults, i>>
    /\ UNCHANGED <<import_logs, clock, file, staged, existingLog, logId, response,
                   parseResult, call>>

\* Mutant: a duplicate-key conflict is counted and listed as an error.
InsertRowDuplicateIsError(r) ==
    /\ pc[r] = "rows"
    /\ LET transaction == parseResult[r].transactions[i[r] + 1]
           first == TransactionRow(1, transaction, md5(file[r]))
           same  == {t \in transactions : [t EXCEPT !.copy = 1] = first}
           row   == [first EXCEPT !.copy = Cardinality(same) + 1]
       IN  \/ /\ DataTooLong(transaction) = ""
              /\ \A t \in transactions : ~UniqueTransactionConflict(row, t)
              /\ transactions' = transactions \cup {row}
              /\ counts' = [counts EXCEPT ![r].imported = @ + 1]
              /\ UNCHANGED <<errors, faults>>
           \/ /\ DataTooLong(transaction) = ""
              /\ \E t \in transactions : UniqueTransactionConflict(row, t)
              /\ counts' = [counts EXCEPT ![r].errors = @ + 1]
              /\ errors' = [errors EXCEPT ![r] =
                               Append(@, [row |-> i[r] + 1, error |-> "Duplicate entry"])]
              /\ UNCHANGED <<transactions, faults>>
           \/ /\ DataTooLong(transaction) # ""
              /\ counts' = [counts EXCEPT ![r].errors = @ + 1]
              /\ errors' = [errors EXCEPT ![r] =
                               Append(@, [row |-> i[r] + 1,
                                          error |-> DataTooLong(transaction)])]
              /\ UNCHANGED <<transactions, faults>>
           \/ /\ faults < MaxFaults
              /\ faults' = faults + 1
              /\ counts' = [counts EXCEPT ![r].errors = @ + 1]
              /\ errors' = [errors EXCEPT ![r] =
                               Append(@, [row |-> i[r] + 1, error |-> "storage error"])]
              /\ UNCHANGED transactions
    /\ i' = [i EXCEPT ![r] = @ + 1]
    /\ pc' = [pc EXCEPT ![r] = AfterRow(r, i[r] + 1)]
    /\ UNCHANGED <<import_logs, clock, file, staged, existingLog, logId, response,
                   thrown, parseResult, call>>

\* One iteration of the row loop: await database.query(insertQuery, [...]) and the
\* counter it changes.
InsertRow(r) ==
    /\ pc[r] = "rows"
    /\ LET transaction == parseResult[r].transactions[i[r] + 1]
           first == TransactionRow(1, transaction, md5(file[r]))
           same  == {t \in transactions : [t EXCEPT !.copy = 1] = first}
           row   == [first EXCEPT !.copy = Cardinality(same) + 1]
       IN  \/ /\ DataTooLong(transaction) = ""
              /\ \A t \in transactions : ~UniqueTransactionConflict(row, t)
              /\ transactions' = transactions \cup {row}
              /\ counts' = [counts EXCEPT ![r].imported = @ + 1]
              /\ UNCHANGED <<errors, faults>>
           \/ /\ DataTooLong(transaction) = ""
              /\ \E t \in transactions : UniqueTransactionConflict(row, t)
              /\ counts' = [counts EXCEPT ![r].skipped = @ + 1]
              /\ UNCHANGED <<transactions, errors, faults>>
           \/ /\ DataTooLong(transaction) # ""
              /\ counts' = [counts EXCEPT ![r].errors = @ + 1]
              /\ errors' = [errors EXCEPT ![r] =
                               Append(@, [row |-> i[r] + 1,
                                          error |-> DataTooLong(transaction)])]
              /\ UNCHANGED <<transactions, faults>>
           \/ /\ faults < MaxFaults
              /\ faults' = faults + 1
              /\ counts' = [counts EXCEPT ![r].errors = @ + 1]
              /\ errors' = [errors EXCEPT ![r] =
                               Append(@, [row |-> i[r] + 1, error |-> "storage error"])]
              /\ UNCHANGED transactions
    /\ i' = [i EXCEPT ![r] = @ + 1]
    /\ pc' = [pc EXCEPT ![r] = AfterRow(r, i[r] + 1)]
    /\ UNCHANGED <<import_logs, clock, file, staged, existingLog, logId, response,
                   thrown, parseResult>>
    /\ UNCHANGED call

\* Mutant: the whole error list is stored.
StoredErrorMessageUntruncated(errs) == IF Len(errs) > 0 THEN <<"json", errs>> ELSE Null

\* JSON.stringify(errors.slice(0, 10)), or null for an empty list.
StoredErrorMessage(errs) ==
    IF Len(errs) > 0
    THEN <<"json", Take(errs, IF Len(errs) < LogErrorSample THEN Len(errs)
                                                            ELSE LogErrorSample)>>
    ELSE Null

\* Mutant: an import with row errors is recorded as 'failed'.
FinalUpdateFailsOnErrors(r) ==
    /\ pc[r] = "finalUpdate"
    /\ import_logs' = [import_logs EXCEPT ![logId[r]] =
            [@ EXCEPT !.total_records = Len(parseResult[r].transactions),
                      !.imported_records = counts[r].imported,
                      !.skipped_records = counts[r].skipped,
                      !.error_records = counts[r].errors,
                      !.import_status = IF counts[r].errors = 0 THEN "completed"
                                                                ELSE "failed",
                      !.error_message = StoredErrorMessage(errors[r])]]
    /\ pc' = [pc EXCEPT ![r] = "finalUnlink"]
    /\ UNCHANGED <<transactions, clock, faults, thrown, file, staged, existingLog, logId,
                   loop, response, parseResult, call>>

\* await database.query('UPDATE import_logs SET total_records = ?, ...,
\* import_status = ?, completed_at = NOW(), error_message = ? WHERE id = ?')
FinalUpdate(r) ==
    /\ pc[r] = "finalUpdate"
    /\ \/ /\ import_logs' = [import_logs EXCEPT ![logId[r]] =
                [@ EXCEPT !.total_records = Len(parseResult[r].transactions),
                          !.imported_records = counts[r].imported,
                          !.skipped_records = counts[r].skipped,
                          !.error_records = counts[r].errors,
                          !.import_status = "completed",
                          !.error_message = StoredErrorMessage(errors[r])]]
          /\ pc' = [pc EXCEPT ![r] = "finalUnlink"]
          /\ UNCHANGED <<faults, thrown>>
       \/ Fault(r, "finalUpdate") /\ UNCHANGED import_logs
    /\ UNCHANGED <<transactions, clock, file, staged, existingLog, logId, loop,
                   response, parseResult>>
    /\ UNCHANGED call

\* await fs.unlink(filePath), then the summary.
FinalUnlink(r) ==
    /\ pc[r] = "finalUnlink"
    /\ \/ /\ staged' = [staged EXCEPT ![r] = FALSE]
          /\ Respond(r, SuccessResponse(Len(parseResult[r].transactions),
                                        counts[r], errors[r]))
          /\ UNCHANGED <<faults, thrown>>
       \/ Fault(r, "finalUnlink") /\ UNCHANGED <<staged, response>>
    /\ UNCHANGED <<db, file, existingLog, logId, loop, parseResult>>
    /\ UNCHANGED call

\* The outer catch: unlink the upload, ignoring a failure of that, then the 500.
Catch(r) ==
    /\ pc[r] = "catch"
    /\ \/ staged' = [staged EXCEPT ![r] = FALSE] /\ UNCHANGED faults
       \/ faults < MaxFaults /\ faults' = faults + 1 /\ UNCHANGED staged
    /\ Respond(r, ErrorResponse(500, <<"Failed to process file", <<>>>>))
    /\ UNCHANGED <<db, file, existingLog, logId, loop, thrown, parseResult>>
    /\ UNCHANGED call

Next ==
    \E r \in Requests :
        \/ Receive(r)
        \/ Lookup(r)
        \/ DupUnlink(r)
        \/ InsertLog(r)
        \/ FailUpdate(r)
        \/ FailUnlink(r)
        \/ InsertRow(r)
        \/ FinalUpdate(r)
        \/ FinalUnlink(r)
        \/ Catch(r)

Spec == Init /\ [][Next]_vars

\* Uploads one after the other.
NextSeq ==
    \E r \in Requests :
        \/ ReceiveNext(r)
        \/ Lookup(r)
        \/ DupUnlink(r)
        \/ InsertLog(r)
        \/ FailUpdate(r)
        \/ FailUnlink(r)
        \/ InsertRow(r)
        \/ FinalUpdate(r)
        \/ FinalUnlink(r)
        \/ Catch(r)

SpecSeq == Init /\ [][NextSeq]_vars

\* Uploads of long statements, one after the other.
NextBulk ==
    \E r \in Requests :
        \/ ReceiveBulk(r)
        \/ Lookup(r)
        \/ DupUnlink(r)
        \/ InsertLog(r)
        \/ FailUpdate(r)
        \/ FailUnlink(r)
        \/ InsertRow(r)
        \/ FinalUpdate(r)
        \/ FinalUnlink(r)
        \/ Catch(r)

SpecBulk == Init /\ [][NextBulk]_vars

(***************************************************************************)
(* Direct calls of the csvParser functions: the argument is drawn from a   *)
(* bounded set, the call returns once.                                     *)
(***************************************************************************)
\* A line with a BE account and no amount.
RowNoAmount == Row(AccountBE1, Date1, <<>>, AccountBE9, <<"4">>)

\* A line whose account column starts with a space.
RowIndented == Row(<<" ">> \o AccountBE1, Date2, Amount2, AccountBE9, <<"5">>)

\* The lines a tokenized file is made of.
ParserRows == {RowTransfer, RowCard, RowBadAmount, RowBadDate, RowSummary,
               RowShifted, RowNoAmount, RowIndented, BlankRow}

MaxRows == 3

RECURSIVE SeqsUpTo(_, _)
SeqsUpTo(S, n) ==
    IF n = 0 THEN {<<>>}
    ELSE LET shorter == SeqsUpTo(S, n - 1)
         IN  shorter \cup {Append(q, x) : q \in shorter, x \in S}

\* Papa.parse(csvContent, parseConfig) of a file the tokenizer accepts.
TokenizedFiles == {[errors |-> <<>>, data |-> d] : d \in SeqsUpTo(ParserRows, MaxRows)}

InitParser ==
    /\ Started
    /\ argument \in TokenizedFiles
    /\ returned = NotReturned

\* csvParser.parseBelgianBankCSV(csvContent) returns.
CallParseBelgianBankCSV ==
    /\ ~returned.called
    /\ returned' = parseBelgianBankCSV(argument)
    /\ UNCHANGED <<argument, route>>

SpecParser == InitParser /\ [][CallParseBelgianBankCSV]_vars


\* parts joined by '/'.
RECURSIVE JoinSlash(_)
JoinSlash(parts) ==
    IF Len(parts) = 0 THEN <<>>
    ELSE IF Len(parts) = 1 THEN parts[1]
    ELSE parts[1] \o <<"/">> \o JoinSlash(Tail(parts))

\* What stands for the day, the month and the year in the strings parseDate is
\* called with.
DayStrings ==
    {<<"1">>, <<"0", "1">>, <<"2", "9">>, <<"3", "1">>, <<"3", "2">>, <<"0">>,
     <<"a">>, <<"1", "a">>, <<>>, <<"-", "1">>}

MonthStrings ==
    {<<"1">>, <<"0", "2">>, <<"0", "4">>, <<"1", "2">>, <<"1", "3">>, <<"0">>,
     <<"a">>, <<"2", "b">>, <<>>}

YearStrings ==
    {<<"2", "0", "2", "4">>, <<"2", "4">>, <<"a">>, <<>>, <<"2", "0", "2", "4", "x">>}

\* The strings parseDate is called with: one to four components, and blanks.
DateStrings ==
    {JoinSlash(<<d, m, y>>) : d \in DayStrings, m \in MonthStrings, y \in YearStrings}
    \cup {JoinSlash(<<d, m>>) : d \in DayStrings, m \in MonthStrings}
    \cup {JoinSlash(<<d, m, y, y>>) : d \in {<<"1">>}, m \in MonthStrings, y \in YearStrings}
    \cup DayStrings \cup YearStrings \cup {<<" ">>, <<" ", " ">>}

InitParseDate ==
    /\ Started
    /\ argument \in DateStrings
    /\ returned = NotReturned

\* csvParser.parseDate(dateStr) returns.
CallParseDate ==
    /\ ~returned.called
    /\ returned' = [called |-> TRUE, value |-> parseDate(argument)]
    /\ UNCHANGED <<argument, route>>

SpecParseDate == InitParseDate /\ [][CallParseDate]_vars


\* The characters of the strings parseAmount is called with.
AmountChars == {"1", "0", ",", ".", "-", "a", " "}

MaxAmountLen == 4

\* The amounts the specification names.
NamedAmounts ==
    {<<"1", "2", "3", "4", ",", "5", "6">>, <<"-", "1", "2", ",", "3", "0">>,
     <<"a", "b", "c">>, <<>>, <<"1", ".", "2", "3", "4", ",", "5", "6">>}

\* The strings parseAmount is called with.
AmountStrings == SeqsUpTo(AmountChars, MaxAmountLen) \cup NamedAmounts

InitParseAmount ==
    /\ Started
    /\ argument \in AmountStrings
    /\ returned = NotReturned

\* csvParser.parseAmount(amountStr) returns.
CallParseAmount ==
    /\ ~returned.called
    /\ returned' = [called |-> TRUE, value |-> parseAmount(argument)]
    /\ UNCHANGED <<argument, route>>

SpecParseAmount == InitParseAmount /\ [][CallParseAmount]_vars


TooManyFields == <<"Too many fields">>

MaxTokenizerErrors == 2

\* Papa.parse(csvContent, parseConfig) of any file: the errors the tokenizer
\* reports, and the rows it returns all the same.
ParsedFiles ==
    {[errors |-> e, data |-> d] :
        e \in SeqsUpTo({TooFewFields, TooManyFields}, MaxTokenizerErrors),
        d \in SeqsUpTo(ParserRows, MaxRows - 1)}

InitTokenized ==
    /\ Started
    /\ argument \in ParsedFiles
    /\ returned = NotReturned

SpecTokenized == InitTokenized /\ [][CallParseBelgianBankCSV]_vars


RefText == <<"R", "E", "F", ".", " ", ":", " ", "A", "1">>

PayconiqText == <<"P", "a", "y", "c", "o", "n", "i", "q", " ", "a", "b", "1">>

\* What the free-text column Mededelingen holds in the rows parseTransactionRow
\* is called with; Undefined for a column the file's header does not have.
Descriptions ==
    {Undefined, <<>>, <<"h", "i">>, RefText, PayconiqText,
     PayconiqText \o <<" ">> \o RefText, <<"R", "E", "F", ".", " ", ":">>}

\* What every other optional column holds.
OptionalValues == {Undefined, <<>>, <<" ">>, <<"N">>, <<"2", "6", "0", "0", " ", "B">>}

EssentialValues(sound) == {Undefined, <<>>, <<" ">>} \cup sound

\* The rows parseTransactionRow is called with (First is the first column the
\* row has).
MapperRows ==
    {[c \in Columns \cup {"First"} |->
        CASE c = "Rekening" -> account
          [] c = "First" -> IF account # Undefined THEN account ELSE date
          [] c = "Boekingsdatum" -> date
          [] c = "Bedrag" -> amount
          [] c = "Transactienummer" -> number
          [] c = "Mededelingen" -> description
          [] OTHER -> other] :
        account \in EssentialValues({AccountBE1}),
        date \in EssentialValues({Date1, BadDate}),
        amount \in EssentialValues({Amount1, BadAmount}),
        number \in {Undefined, <<>>, <<"7">>},
        description \in Descriptions,
        other \in OptionalValues}

InitMapper ==
    /\ Started
    /\ argument \in MapperRows
    /\ returned = NotReturned

\* csvParser.parseTransactionRow(row) returns or throws.
CallParseTransactionRow ==
    /\ ~returned.called
    /\ returned' = [called |-> TRUE, result |-> parseTransactionRow(argument)]
    /\ UNCHANGED <<argument, route>>

SpecMapper == InitMapper /\ [][CallParseTransactionRow]_vars


(***************************************************************************)
(* DELETE /api/transactions/:id (routes/transactions.js).                  *)
(***************************************************************************)
\* The files uploaded while transactions are being deleted: file 1, the file
\* with only a header, and file 7, which repeats a line of file 1.
DeleteFiles == {1, 3, 7}

ReceiveWhileDeleting(r) ==
    /\ \A q \in 1..(r - 1) : pc[q] = "done"
    /\ Arrive(r, DeleteFiles)

\* Mutant: deleting the last row of a completed import deletes its log too.
DeleteTransactionReopensFile ==
    /\ \E t \in transactions :
          /\ transactions' = transactions \ {t}
          /\ import_logs' =
                IF \E u \in transactions' : u.file_hash = t.file_hash
                THEN import_logs
                ELSE SelectSeq(import_logs,
                               LAMBDA l : ~(/\ l.file_hash = t.file_hash
                                            /\ l.import_status = "completed"))
    /\ UNCHANGED <<clock, faults, pc, file, staged, existingLog, logId,
                   i, counts, errors, response, thrown, parseResult, call>>

\* await database.query('DELETE FROM transactions WHERE id = ?'): the row with
\* that id is removed.  (For an id that no row has, affectedRows is 0, the answer
\* is 404 and nothing changes.)
DeleteTransaction ==
    /\ \E t \in transactions : transactions' = transactions \ {t}
    /\ UNCHANGED <<import_logs, clock, faults, pc, file, staged, existingLog, logId,
                   i, counts, errors, response, thrown, parseResult, call>>

\* Uploads one after the other, and deletions at any moment.
NextDelete ==
    \/ \E r \in Requests :
          \/ ReceiveWhileDeleting(r)
          \/ Lookup(r)
          \/ DupUnlink(r)
          \/ InsertLog(r)
          \/ FailUpdate(r)
          \/ FailUnlink(r)
          \/ InsertRow(r)
          \/ FinalUpdate(r)
          \/ FinalUnlink(r)
          \/ Catch(r)
    \/ DeleteTransaction

SpecDelete == Init /\ [][NextDelete]_vars


(***************************************************************************)
(* The positional-mapping variant of the parser (unnamed/part_001).        *)
(***************************************************************************)
\* The Belfius header in its standard column order.
StandardOrder ==
    <<"Rekening", "Boekingsdatum", "Rekeninguittrekselnummer", "Transactienummer",
      "RekeningTegenpartij", "NaamTegenpartijBevat", "StraatEnNummer",
      "PostcodeEnPlaats", "Transactie", "Valutadatum", "Bedrag", "Devies", "BIC",
      "Landcode", "Mededelingen">>

\* Object.values(row) of a row of a file with the standard header: the first
\* value, then the values of the other columns in their order.
ObjectValues(row) ==
    [k \in 1..Len(StandardOrder) |-> IF k = 1 THEN row.First ELSE row[StandardOrder[k]]]

\* parseTransactionRow of the variant: values[0] is the account number, values[1]
\* the booking date, ..., values[14] the description; from there on the code is
\* that of the header-name variant.
parseTransactionRowPositional(row) ==
    LET values == ObjectValues(row)
    IN  parseTransactionRow([c \in Columns |->
            values[CHOOSE k \in 1..Len(StandardOrder) : StandardOrder[k] = c]])

\* The first loop of the variant: the index (from 0) of the first row whose first
\* cell starts with 'BE', looked for among rows[from + 1 ..]; 0 when there is none.
RECURSIVE dataStartIndex(_, _)
dataStartIndex(rows, from) ==
    IF from >= Len(rows) THEN 0
    ELSE LET firstCell == ObjectValues(rows[from + 1])[1]
         IN  IF Truthy(firstCell) /\ StartsWith(firstCell, BEPrefix)
             THEN from
             ELSE dataStartIndex(rows, from + 1)

\* The second loop of the variant over the rows of index start .. n - 1: blank
\* rows are passed over, every other row is mapped.
RECURSIVE CollectTransactionsPositional(_, _, _)
CollectTransactionsPositional(rows, start, n) ==
    IF n <= start THEN <<>>
    ELSE LET before == CollectTransactionsPositional(rows, start, n - 1)
             row    == rows[n]
         IN  IF IsBlankRow(row) THEN before
             ELSE LET r == parseTransactionRowPositional(row)
                  IN  IF r.kind = "ok" THEN Append(before, r.transaction) ELSE before

CouldNotFindData == Message("Could not find transaction data in CSV file", <<>>)

NoValidTransactionsPositional == Message("No valid transactions found in CSV file", <<>>)

\* parseBelgianBankCSV of the variant on the tokenizer's result.
parseBelgianBankCSVPositional(parsed) ==
    IF Len(parsed.errors) > 0
    THEN [called |-> TRUE, success |-> FALSE, transactions |-> <<>>,
          error |-> Message("CSV parsing failed: ", parsed.errors[1])]
    ELSE IF dataStartIndex(parsed.data, 0) = 0
    THEN [called |-> TRUE, success |-> FALSE, transactions |-> <<>>,
          error |-> CouldNotFindData]
    ELSE LET pushed == CollectTransactionsPositional(
                           parsed.data, dataStartIndex(parsed.data, 0),
                           Len(parsed.data))
         IN  IF Len(pushed) = 0
             THEN [called |-> TRUE, success |-> FALSE, transactions |-> <<>>,
                   error |-> NoValidTransactionsPositional]
             ELSE [called |-> TRUE, success |-> TRUE, transactions |-> pushed,
                   error |-> Null]

\* The lines of a file whose header is in the standard order: the first column is
\* Rekening.
StandardRows == {row \in ParserRows : row.First = row.Rekening}

\* Papa.parse of a file with the standard header.
StandardFiles ==
    {[errors |-> e, data |-> d] :
        e \in {<<>>, <<TooFewFields>>}, d \in SeqsUpTo(StandardRows, MaxRows)}

InitVariants ==
    /\ Started
    /\ argument \in StandardFiles
    /\ returned = NotReturned

\* Both variants of parseBelgianBankCSV return on the same content.
CallBothVariants ==
    /\ ~returned.called
    /\ returned' = [called     |-> TRUE,
                    byName     |-> parseBelgianBankCSV(argument),
                    byPosition |-> parseBelgianBankCSVPositional(argument)]
    /\ UNCHANGED <<argument, route>>

SpecVariants == InitVariants /\ [][CallBothVariants]_vars


(***************************************************************************)
(* Properties.                                                             *)
(***************************************************************************)
Done(r) == pc[r] = "done"

\* The upload carried a file and no storage or file-system call of it failed for
\* a reason of its own, nor did anything else reach the outer catch.
Undisturbed(r) == file[r] # NoFile /\ thrown[r] = ""

AlreadyProcessed == <<"File already processed", <<>>>>

\* C1: in uploads made one after the other, when an upload of a file was answered
\* with success, a later upload of the same bytes (that no storage or file-system
\* failure disturbs) is answered 409 'File already processed', its importDate is
\* the imported_at of the first upload's import log, and it is not a success.
C1_IdempotentFileImport ==
    \A a, b \in Requests :
        (a < b /\ Done(a) /\ Done(b) /\ file[a] = file[b] /\ response[a].success
           /\ Undisturbed(b))
        => /\ response[b].status = 409
           /\ response[b].error = AlreadyProcessed
           /\ ~response[b].success
           /\ response[b].importDate = import_logs[logId[a]].imported_at
           /\ \A k \in 1..Len(import_logs) :
                 import_logs[k].file_hash = md5(file[a]) => k = logId[a]

C1_Witness ==
    \E a, b \in Requests :
        /\ a < b /\ Done(a) /\ Done(b) /\ file[a] = file[b]
        /\ response[a].success /\ response[b].status = 409

\* C2: every step of an upload whose lookup found an import log with its
\* fingerprint leaves the import logs and the transactions as they were, and that
\* upload never calls the parser, never attempts an INSERT into transactions and
\* creates no import log.
C2_DuplicateLeavesStateUntouched ==
    [][\A r \in Requests :
          (Len(existingLog'[r]) > 0 /\ pc'[r] # pc[r])
          => /\ import_logs' = import_logs
             /\ transactions' = transactions
             /\ ~parseResult'[r].called
             /\ i'[r] = 0
             /\ logId'[r] = 0]_vars

\* A duplicate of a file whose import log is 'failed' has been rejected.
C2_Witness ==
    \E r \in Requests :
        /\ Done(r) /\ response[r].status = 409
        /\ import_logs[existingLog[r][1].id].import_status = "failed"

\* C3 (as claimed): an upload whose INSERT INTO import_logs hits the
\* unique-fingerprint conflict ends with 409 'File already processed'.
C3_LateConflictIsDuplicate ==
    \A r \in Requests :
        (Done(r) /\ thrown[r] = "ER_DUP_ENTRY")
        => response[r].status = 409 /\ response[r].error = AlreadyProcessed

\* The upload reached the row loop.
ReachedRows(r) == pc[r] = "rows" \/ i[r] > 0

\* C4: in every interleaving at most one import log has a given file_hash, and of
\* the uploads of the same bytes at most one reaches the row loop.
C4_AtMostOnceImport ==
    /\ \A j, k \in 1..Len(import_logs) :
          import_logs[j].file_hash = import_logs[k].file_hash => j = k
    /\ \A a, b \in Requests :
          (a # b /\ file[a] = file[b] /\ ReachedRows(a)) => ~ReachedRows(b)

\* Two uploads of the same bytes both passed the lookup; one went on to the rows
\* and the other hit the conflict.
C4_Witness ==
    \E a, b \in Requests :
        /\ a # b /\ file[a] = file[b] /\ ReachedRows(a)
        /\ thrown[b] = "ER_DUP_ENTRY"

\* C5 (as claimed): an upload that persisted a transaction row ends with the
\* success response and its import log 'completed'.
C5_CompletesOrPersistsNothing ==
    \A r \in Requests :
        (Done(r) /\ counts[r].imported > 0)
        => response[r].success /\ import_logs[logId[r]].import_status = "completed"

\* C6: when the parser returned failure for an upload, the upload attempts no
\* INSERT into transactions; once answered (undisturbed by a storage or file-system
\* failure) its import log is 'failed' with the parser's error as error_message
\* and the response is a 400 carrying that same error.
C6_ParseFailurePath ==
    \A r \in Requests :
        (parseResult[r].called /\ ~parseResult[r].success)
        => /\ i[r] = 0
           /\ \A t \in transactions : t.file_hash # md5(file[r])
           /\ (Done(r) /\ Undisturbed(r))
              => /\ import_logs[logId[r]].import_status = "failed"
                 /\ import_logs[logId[r]].error_message = parseResult[r].error
                 /\ response[r].status = 400
                 /\ response[r].error = parseResult[r].error

C6_Witness ==
    \E r \in Requests :
        /\ Done(r) /\ parseResult[r].called /\ ~parseResult[r].success
        /\ response[r].status = 400

\* A row with an account that starts with BE and with booking-date and amount
\* strings present.
StructurallyValid(row) ==
    /\ StartsWith(row.Rekening, BEPrefix)
    /\ Truthy(trim(row.Boekingsdatum))
    /\ Truthy(trim(row.Bedrag))

\* Its booking date or its amount does not parse.
Unparsable(row) ==
    \/ parseDate(trim(row.Boekingsdatum)) = Null
    \/ parseAmount(trim(row.Bedrag)).nan

\* The 1-based indices of the file's rows that do not parse.
UnparsableRows(f) ==
    {k \in 1..Len(FileContent[f].data) : Unparsable(FileContent[f].data[k])}

Smaller(a, b) == IF a < b THEN a ELSE b

\* C7 (as claimed): for a file of N structurally valid rows of which K do not
\* parse, imported with no duplicate overlap and no storage failure, the summary
\* reports imported = N - K and errors = K, the returned error list names exactly
\* those K rows (up to the sample bound), and the import log is 'completed'.
C7_RowParseErrorsSurfaced ==
    \A r \in Requests :
        (/\ Done(r) /\ response[r].success /\ faults = 0 /\ counts[r].skipped = 0
         /\ \A k \in 1..Len(FileContent[file[r]].data) :
               StructurallyValid(FileContent[file[r]].data[k]))
        => /\ response[r].summary.imported
                = Len(FileContent[file[r]].data) - Cardinality(UnparsableRows(file[r]))
           /\ response[r].summary.errors = Cardinality(UnparsableRows(file[r]))
           /\ Len(response[r].errors)
                = Smaller(Cardinality(UnparsableRows(file[r])), ResponseErrorSample)
           /\ \A k \in 1..Len(response[r].errors) :
                 response[r].errors[k].row \in UnparsableRows(file[r])
           /\ import_logs[logId[r]].import_status = "completed"

\* Two rows agree on (account_number, booking_date, amount, counterpart_account,
\* reference_number).
SameDuplicateKey(a, b) ==
    /\ a.account_number = b.account_number
    /\ a.booking_date = b.booking_date
    /\ a.amount = b.amount
    /\ a.counterpart_account = b.counterpart_account
    /\ a.reference_number = b.reference_number

\* C8 (as claimed): no two rows of the transactions table agree on all of
\* (account_number, booking_date, amount, counterpart_account, reference_number),
\* a NULL counterpart_account or reference_number included.
C8_StoredTransactionsUnique ==
    \A a, b \in transactions : SameDuplicateKey(a, b) => a = b

\* Each transaction the parser returned for the upload agrees on the duplicate key
\* with a row stored for another file.
AllStoredBefore(r) ==
    \A k \in 1..Len(parseResult[r].transactions) :
        \E t \in transactions :
            /\ t.file_hash # md5(file[r])
            /\ SameDuplicateKey(t, TransactionRow(1, parseResult[r].transactions[k],
                                                  md5(file[r])))

\* C9 (as claimed): in uploads made one after the other with no storage failure,
\* an upload whose n parsed transactions each equal, on the duplicate key, a
\* transaction stored by an earlier import reports imported = 0, skipped = n,
\* errors = 0, and stores no row.
C9_RowLevelIdempotence ==
    \A r \in Requests :
        (Done(r) /\ response[r].success /\ faults = 0 /\ AllStoredBefore(r))
        => /\ response[r].summary.imported = 0
           /\ response[r].summary.skipped = Len(parseResult[r].transactions)
           /\ response[r].summary.errors = 0
           /\ \A t \in transactions : t.file_hash # md5(file[r])

\* No row of the file has an account-number field that starts with BE (a file
\* with only a header has no row).
NoAccountRow(f) ==
    \A k \in 1..Len(FileContent[f].data) :
        ~StartsWith(FileContent[f].data[k].Rekening, BEPrefix)

\* The upload has inserted no transaction row and attempted none.
NoRowOf(r) == i[r] = 0 /\ \A t \in transactions : t.file_hash # md5(file[r])

\* C10 (as claimed): for a file with only a header, or with no row whose
\* account-number field starts with BE, the parser returns failure with the 'No
\* valid transactions found' error, and the upload creates no transaction row.
C10_EmptyResultAsClaimed ==
    \A r \in Requests :
        (parseResult[r].called /\ NoAccountRow(file[r]))
        => /\ ~parseResult[r].success
           /\ parseResult[r].error = NoValidTransactions
           /\ NoRowOf(r)

\* C10 (amended): for such a file the parser returns failure - with the 'No valid
\* transactions found' error when the tokenizer reported no error - and the upload
\* creates no transaction row; the parser never returns success with an empty list.
C10_EmptyResultParseFailure ==
    \A r \in Requests :
        /\ (parseResult[r].called /\ NoAccountRow(file[r]))
           => /\ ~parseResult[r].success
              /\ Len(FileContent[file[r]].errors) = 0
                 => parseResult[r].error = NoValidTransactions
              /\ NoRowOf(r)
        /\ parseResult[r].success => Len(parseResult[r].transactions) > 0

\* A header-only file and a file whose rows have no BE account have both been
\* uploaded and answered with the parser's 'No valid transactions found'.
C10_Witness ==
    \E a, b \in Requests :
        /\ Done(a) /\ Done(b)
        /\ file[a] # NoFile /\ file[b] # NoFile
        /\ FileContent[file[a]].data = <<>>
        /\ FileContent[file[b]].data # <<>> /\ NoAccountRow(file[b])
        /\ response[a].status = 400 /\ response[a].error = NoValidTransactions
        /\ response[b].status = 400 /\ response[b].error = NoValidTransactions

\* The row is not blank and its account (Rekening, or else the first column)
\* starts with BE.
AccountRow(row) ==
    /\ \E c \in DOMAIN row : trim(row[c]) # <<>>
    /\ StartsWith(OrElse(row.Rekening, row.First), BEPrefix)

\* The row's mapping gives a transaction.
Maps(row) == AccountRow(row) /\ parseTransactionRow(row).kind = "ok"

\* The row's mapping throws.
MappingThrows(row) == AccountRow(row) /\ parseTransactionRow(row).kind = "throw"

\* The mapped rows of a file, in file order.
Mapped(rows) ==
    LET kept == SelectSeq(rows, Maps)
    IN  [k \in 1..Len(kept) |-> parseTransactionRow(kept[k]).transaction]

Without(rows, k) == SubSeq(rows, 1, k - 1) \o SubSeq(rows, k + 1, Len(rows))

\* C11: for a file the tokenizer accepts, the transactions parseBelgianBankCSV
\* returns are the mappings of the rows that are not blank, have an account
\* starting with BE and map to a transaction, in file order (the parse fails when
\* there is none); and a row whose mapping throws removes only itself: the parse
\* of the file without that row returns the same.
C11_RowErrorIsolation ==
    returned.called
    => /\ returned.success <=> Mapped(argument.data) # <<>>
       /\ returned.transactions = Mapped(argument.data)
       /\ \A k \in 1..Len(argument.data) :
             MappingThrows(argument.data[k])
             => parseBelgianBankCSV([argument EXCEPT !.data = Without(@, k)])
                = returned

\* A file whose second row throws, between two rows that map, has been parsed.
C11_Witness ==
    /\ returned.called
    /\ Len(argument.data) = 3
    /\ Maps(argument.data[1]) /\ MappingThrows(argument.data[2]) /\ Maps(argument.data[3])
    /\ Len(returned.transactions) = 2

\* The first n entries of a list, all of them when it has fewer.
FirstOf(list, n) == SubSeq(list, 1, IF Len(list) < n THEN Len(list) ELSE n)

IsPrefix(a, b) == Len(a) <= Len(b) /\ a = SubSeq(b, 1, Len(a))

\* The upload was answered with success: its import completed.
Completed(r) == Done(r) /\ response[r].success

\* C12: for every completed import with error list E, the error_message stored
\* in its import log is the serialization of the first min(10, |E|) entries of E
\* (null when E is empty), the errors returned are the first min(5, |E|) entries,
\* the returned sample is a prefix of the stored one, and the error count reported
\* and stored is |E|.
C12_BoundedErrorSamples ==
    \A r \in Requests :
        Completed(r)
        => LET E   == errors[r]
               log == import_logs[logId[r]]
           IN  /\ log.error_message
                  = IF E = <<>> THEN Null ELSE <<"json", FirstOf(E, 10)>>
               /\ response[r].errors = FirstOf(E, 5)
               /\ E # <<>> => IsPrefix(response[r].errors, log.error_message[2])
               /\ response[r].summary.errors = Len(E)
               /\ log.error_records = Len(E)

\* An import with more than ten row errors has completed, and so has one with
\* between six and ten.
C12_Witness ==
    /\ \E r \in Requests : Completed(r) /\ Len(errors[r]) > 10
    /\ \E r \in Requests : Completed(r) /\ Len(errors[r]) > 5 /\ Len(errors[r]) <= 10

\* C13: when the handler has answered a request that staged a file on disk,
\* whatever the answer, the staged file no longer exists.
C13_StagedFileRemoved ==
    \A r \in Requests : (Done(r) /\ file[r] # NoFile) => ~staged[r]

\* The string is a number written in digits.
IsNumeric(s) == s # <<>> /\ \A k \in 1..Len(s) : IsDigit(s[k])

IsBlank(s) == \A k \in 1..Len(s) : s[k] = " "

\* C14: parseDate returns null exactly when the string is empty or blank, does
\* not split on '/' into three components, has a component that is not numeric,
\* or has a day outside 1..31 or a month outside 1..12; otherwise it returns the
\* year, the month in two digits and the day in two digits, joined by '-'.
C14_ParseDateResult ==
    returned.called
    => LET parts   == split(argument, "/")
           day     == DigitsToNat(parts[1])
           month   == DigitsToNat(parts[2])
           year    == DigitsToNat(parts[3])
           invalid == \/ IsBlank(argument)
                      \/ Len(parts) # 3
                      \/ \E k \in 1..3 : ~IsNumeric(parts[k])
                      \/ day < 1 \/ day > 31
                      \/ month < 1 \/ month > 12
       IN  IF invalid THEN returned.value = Null
           ELSE returned.value
                = NatToDigits(year) \o <<"-">>
                  \o (IF month < 10 THEN <<"0">> ELSE <<>>) \o NatToDigits(month)
                  \o <<"-">>
                  \o (IF day < 10 THEN <<"0">> ELSE <<>>) \o NatToDigits(day)

\* The string with every character that is not a digit, comma, period or minus
\* sign removed and the comma turned into a period.
Cleaned(s) == ReplaceFirstComma(SelectSeq(s, KeepAmountChar))

Unsigned(s) == IF s # <<>> /\ Head(s) = "-" THEN Tail(s) ELSE s

\* The string is a number: an optional minus sign, then digits with at most one
\* period among them.
IsDecimal(s) ==
    LET body == Unsigned(s)
    IN  /\ \E k \in 1..Len(body) : IsDigit(body[k])
        /\ \A k \in 1..Len(body) : IsDigit(body[k]) \/ body[k] = "."
        /\ Cardinality({k \in 1..Len(body) : body[k] = "."}) <= 1

\* The value of such a string.
DecimalValue(s) ==
    LET body     == Unsigned(s)
        digits   == SelectSeq(body, IsDigit)
        dot      == {k \in 1..Len(body) : body[k] = "."}
        decimals == IF dot = {} THEN 0 ELSE Len(body) - (CHOOSE k \in dot : TRUE)
        mant     == DigitsToNat(digits)
    IN  Normalize(IF s # body THEN -mant ELSE mant, decimals)

\* C15: parseAmount returns null when the string is empty or blank, or when what
\* is left after the cleaning is not numeric; otherwise it returns the signed
\* decimal value, the comma read as the decimal separator.
C15_ParseAmountResult ==
    returned.called
    => IF IsBlank(argument) \/ ~IsDecimal(Cleaned(argument))
       THEN returned.value.nan
       ELSE returned.value = DecimalValue(Cleaned(argument))

Final == {"completed", "failed"}

\* The step inserts an import log, in status 'processing'; no transaction row of
\* its file exists yet.
CreatesLog ==
    /\ Len(import_logs') = Len(import_logs) + 1
    /\ SubSeq(import_logs', 1, Len(import_logs)) = import_logs
    /\ import_logs'[Len(import_logs')].import_status = "processing"
    /\ \A t \in transactions :
          t.file_hash # import_logs'[Len(import_logs')].file_hash

\* The step writes the status of one log that was 'processing', making it
\* 'completed' or 'failed', for an upload all of whose transactions have had
\* their insert attempt; the other logs stay as they are.
FinalizesLog ==
    /\ Len(import_logs') = Len(import_logs)
    /\ \E k \in 1..Len(import_logs) :
          /\ import_logs[k].import_status = "processing"
          /\ import_logs'[k].import_status \in Final
          /\ \A h \in 1..Len(import_logs) : h # k => import_logs'[h] = import_logs[h]
          /\ \E r \in Requests :
                /\ logId[r] = k
                /\ i[r] = Len(parseResult[r].transactions)
                /\ i'[r] = i[r]

\* C16: the import log of an upload is inserted as 'processing' before the
\* upload's first INSERT into transactions; every insert attempt is made while
\* that log is 'processing'; the status is written after the last insert attempt,
\* once (a 'completed' or 'failed' log is never modified again, so the only
\* transitions are processing -> completed and processing -> failed); and an
\* upload answered with its summary or with the parser's error has written it.
C16_LogLifecycleOrdering ==
    /\ [][/\ \A r \in Requests :
                i'[r] # i[r]
                => /\ logId[r] # 0
                   /\ import_logs[logId[r]].import_status = "processing"
                   /\ import_logs' = import_logs
          /\ transactions' # transactions => \E r \in Requests : i'[r] # i[r]
          /\ import_logs' # import_logs => CreatesLog \/ FinalizesLog]_vars
    /\ [](\A r \in Requests :
             (Done(r) /\ Undisturbed(r) /\ logId[r] # 0)
             => import_logs[logId[r]].import_status \in Final)

\* One upload has completed with rows stored, another has failed in the parser.
C16_Witness ==
    \E a, b \in Requests :
        /\ Done(a) /\ Done(b)
        /\ logId[a] # 0 /\ logId[b] # 0
        /\ import_logs[logId[a]].import_status = "completed" /\ counts[a].imported > 0
        /\ import_logs[logId[b]].import_status = "failed"

\* C17: once the handler that created an import log has sent its response,
\* whatever the response, that log's status is not 'processing'.
C17_NoLogLeftProcessing ==
    \A r \in Requests :
        (Done(r) /\ logId[r] # 0) => import_logs[logId[r]].import_status # "processing"

\* C18: an import log is 'failed' only if the parser returned failure for its
\* upload and 'completed' only if the parser succeeded; an upload answered with
\* the parser's error leaves its log 'failed', and an upload answered with its
\* summary leaves it 'completed' whatever the row outcomes, also when every
\* insert errored.
C18_UniformCompleted ==
    \A r \in Requests :
        logId[r] # 0
        => LET status == import_logs[logId[r]].import_status
           IN  /\ status = "failed" => ~parseResult[r].success
               /\ status = "completed" => parseResult[r].success
               /\ (Done(r) /\ Undisturbed(r))
                  => status = IF parseResult[r].success THEN "completed" ELSE "failed"

\* An import in which every insert errored has completed.
C18_Witness ==
    \E r \in Requests :
        /\ Completed(r)
        /\ counts[r].imported = 0 /\ counts[r].skipped = 0
        /\ counts[r].errors = Len(parseResult[r].transactions)
        /\ import_logs[logId[r]].import_status = "completed"
        /\ import_logs[logId[r]].error_records = import_logs[logId[r]].total_records

\* The step is an insert attempt of upload r's row loop.
Attempts(r) == i'[r] = i[r] + 1

\* The storage holds a row with the key of the transaction that upload r is
\* about to insert.
KeyStored(r) ==
    LET t == parseResult[r].transactions[i[r] + 1]
    IN  \E s \in transactions :
           /\ s.account_number = t.accountNumber
           /\ s.booking_date = t.bookingDate
           /\ s.amount = ToDecimal2(t.amount)
           /\ s.counterpart_account = t.counterpartAccount
           /\ s.reference_number = t.referenceNumber

\* The message of the failure, other than the duplicate-key conflict, that the
\* storage reports in this step for the insert of upload r: the value that does
\* not fit its column, or a failure of the storage's own; "" if there is none.
StorageError(r) ==
    LET t == parseResult[r].transactions[i[r] + 1]
    IN  IF faults' # faults THEN "storage error" ELSE DataTooLong(t)

\* C19: each insert attempt of the row loop changes exactly one counter, by one:
\* imported when the row was stored, skipped when the storage reported the
\* duplicate-key conflict, errors on any other failure; an entry is appended to
\* the error list in the last case only, with the 1-based position of the
\* transaction and the storage error's message; and nothing else changes the
\* counters or the list.  So the entries are in strictly increasing row order and
\* there are as many as the errors counter says.
C19_RowOutcomeClassification ==
    /\ [][\A r \in Requests :
             /\ Attempts(r)
                => LET c == counts[r]
                       d == counts'[r]
                   IN  /\ \/ /\ d = [c EXCEPT !.imported = @ + 1]
                             /\ Cardinality(transactions') = Cardinality(transactions) + 1
                             /\ errors'[r] = errors[r]
                          \/ /\ d = [c EXCEPT !.skipped = @ + 1]
                             /\ KeyStored(r)
                             /\ transactions' = transactions
                             /\ errors'[r] = errors[r]
                          \/ /\ d = [c EXCEPT !.errors = @ + 1]
                             /\ transactions' = transactions
                             /\ Len(errors'[r]) = Len(errors[r]) + 1
                             /\ SubSeq(errors'[r], 1, Len(errors[r])) = errors[r]
                             /\ errors'[r][Len(errors'[r])].row = i[r] + 1
                             /\ errors'[r][Len(errors'[r])].error = StorageError(r)
                             /\ StorageError(r) # ""
             /\ ~Attempts(r) => counts'[r] = counts[r] /\ errors'[r] = errors[r]]_vars
    /\ [](\A r \in Requests :
             /\ counts[r].imported + counts[r].skipped + counts[r].errors = i[r]
             /\ Len(errors[r]) = counts[r].errors
             /\ \A k \in 1..Len(errors[r]) :
                   /\ errors[r][k].row \in 1..i[r]
                   /\ k > 1 => errors[r][k - 1].row < errors[r][k].row)

\* One upload has had rows stored, another has had a row skipped as a duplicate
\* and rows rejected.
C19_Witness ==
    \E a, b \in Requests :
        /\ Done(a) /\ counts[a].imported > 0
        /\ Done(b) /\ counts[b].skipped > 0 /\ counts[b].errors > 1
        /\ \A k \in 1..Len(errors[b]) : errors[b][k].row # 7

\* C20: once the parser has succeeded, the row loop attempts the transactions one
\* by one in file order, each once: an attempt moves the index by one whatever
\* its outcome, never throws and never sends a response, and the loop is left
\* only when every transaction has had its attempt; so an upload whose parse
\* succeeded never ends with a row unattempted, and unless a call outside the row
\* loop fails it is answered with its summary, row failures or not.
C20_RowFailuresNeverAbort ==
    /\ [][\A r \in Requests :
             /\ i'[r] # i[r]
                => /\ i'[r] = i[r] + 1
                   /\ i'[r] <= Len(parseResult[r].transactions)
                   /\ thrown'[r] = thrown[r]
                   /\ response'[r] = response[r]
             /\ (pc[r] = "rows" /\ pc'[r] # "rows")
                => /\ pc'[r] = "finalUpdate"
                   /\ i'[r] = Len(parseResult[r].transactions)]_vars
    /\ [](\A r \in Requests :
             /\ (parseResult[r].success /\ pc[r] # "rows")
                => i[r] = Len(parseResult[r].transactions)
             /\ (Done(r) /\ parseResult[r].success /\ Undisturbed(r))
                => /\ response[r].success
                   /\ response[r].summary.totalRecords = i[r]
                   /\ import_logs[logId[r]].import_status = "completed")

\* The long statement has been imported after file 1: its first row was rejected,
\* its seventh skipped as a duplicate, and all twelve were attempted.
C20_Witness ==
    \E r \in Requests :
        /\ Completed(r)
        /\ i[r] = 12
        /\ errors[r] # <<>> /\ errors[r][1].row = 1
        /\ counts[r].skipped = 1
        /\ counts[r].errors = 11

\* The duplicate key of a parsed transaction, as the storage holds it.
KeyOfTransaction(t) ==
    <<t.accountNumber, t.bookingDate, ToDecimal2(t.amount), t.counterpartAccount,
      t.referenceNumber>>

KeyOfRow(s) ==
    <<s.account_number, s.booking_date, s.amount, s.counterpart_account,
      s.reference_number>>

KeysOf(r) ==
    {KeyOfTransaction(parseResult[r].transactions[k]) :
        k \in 1..Len(parseResult[r].transactions)}

\* Uploads a and b of files with different bytes ran while no storage or
\* file-system call failed for a reason of its own, and both have been answered.
BothAnswered(a, b) ==
    /\ a # b /\ Done(a) /\ Done(b)
    /\ file[a] # NoFile /\ file[b] # NoFile /\ file[a] # file[b]
    /\ faults = 0

\* C21: when two uploads of files with different bytes each contain a
\* transaction with the same duplicate key, then in every interleaving the
\* transaction is stored once, one upload counts it as imported and the other as
\* skipped, neither counts an error, and both import logs end 'completed'.
C21_OverlappingRowStoredOnce ==
    \A a, b \in Requests :
        (BothAnswered(a, b) /\ KeysOf(a) \cap KeysOf(b) # {})
        => /\ \A key \in KeysOf(a) \cap KeysOf(b) :
                 Cardinality({s \in transactions : KeyOfRow(s) = key}) = 1
           /\ counts[a].errors = 0 /\ counts[b].errors = 0
           /\ counts[a].imported + counts[b].imported
              = Cardinality(KeysOf(a) \cup KeysOf(b))
           /\ counts[a].skipped + counts[b].skipped
              = Cardinality(KeysOf(a) \cap KeysOf(b))
           /\ import_logs[logId[a]].import_status = "completed"
           /\ import_logs[logId[b]].import_status = "completed"

\* C22: whenever the tokenizer reports an error for the content,
\* parseBelgianBankCSV returns failure with the message built from the first
\* reported error and no transactions, however many rows would have mapped: the
\* result is the one for the same errors and no row at all.
C22_TokenizerErrorsFatal ==
    (returned.called /\ Len(argument.errors) > 0)
    => /\ ~returned.success
       /\ returned.error = <<"CSV parsing failed: ", argument.errors[1]>>
       /\ returned.transactions = <<>>
       /\ returned = parseBelgianBankCSV([argument EXCEPT !.data = <<>>])

\* A file with two different tokenizer errors and two rows that map has been
\* parsed.
C22_Witness ==
    /\ returned.called
    /\ Len(argument.errors) = 2 /\ argument.errors[1] # argument.errors[2]
    /\ Len(argument.data) = 2 /\ Maps(argument.data[1]) /\ Maps(argument.data[2])
    /\ ~returned.success

\* C23: every transaction parseBelgianBankCSV returns has an accountNumber that
\* starts with BE; a row whose Rekening column does not start with BE contributes
\* no transaction and is no error: the parse returns what it returns for the file
\* without that row.
C23_AccountMarkerFilter ==
    returned.called
    => /\ \A k \in 1..Len(returned.transactions) :
             StartsWith(returned.transactions[k].accountNumber, BEPrefix)
       /\ Len(returned.transactions)
          <= Cardinality({k \in 1..Len(argument.data) :
                             StartsWith(argument.data[k].Rekening, BEPrefix)})
       /\ \A k \in 1..Len(argument.data) :
             ~StartsWith(argument.data[k].Rekening, BEPrefix)
             => parseBelgianBankCSV([argument EXCEPT !.data = Without(@, k)])
                = returned

\* A file with a summary line, a line that has BE in its first column only, and a
\* transaction line has been parsed: one transaction.
C23_Witness ==
    /\ returned.called /\ returned.success
    /\ argument.data = <<RowSummary, RowShifted, RowTransfer>>
    /\ Len(returned.transactions) = 1

\* The column is absent from the row or blank after trimming.
Missing(value) == value = Undefined \/ \A k \in 1..Len(value) : value[k] = " "

\* The row lacks its account number, its booking date or its amount.
Incomplete(row) ==
    Missing(row.Rekening) \/ Missing(row.Boekingsdatum) \/ Missing(row.Bedrag)

OneRowFile(row) == [errors |-> <<>>, data |-> <<row>>]

\* C24: parseTransactionRow returns null, and does not throw, for every row whose
\* account number, booking date or amount is absent or blank, whatever the date
\* and the amount that are there; in a file such a row is left out without an
\* error and without failing the parse: with a row that maps, before it or after
\* it, the parse returns what it returns for that row alone.
C24_StructuralSkipSilent ==
    (returned.called /\ Incomplete(argument))
    => /\ returned.result.kind = "null"
       /\ parseBelgianBankCSV([errors |-> <<>>, data |-> <<argument, RowTransfer>>])
          = parseBelgianBankCSV(OneRowFile(RowTransfer))
       /\ parseBelgianBankCSV([errors |-> <<>>, data |-> <<RowTransfer, argument>>])
          = parseBelgianBankCSV(OneRowFile(RowTransfer))
       /\ parseBelgianBankCSV(OneRowFile(RowTransfer)).success

\* The mapper has been called with a row that has an account and no amount, and
\* a booking date that does not parse.
C24_Witness ==
    /\ returned.called
    /\ argument.Rekening = AccountBE1
    /\ argument.Boekingsdatum = BadDate
    /\ argument.Bedrag = <<" ">>
    /\ returned.result.kind = "null"

\* The reference the description carries: the token after 'REF. :' if there is
\* one, otherwise the hex token after 'Payconiq', otherwise null.
ReferenceIn(description) ==
    CASE description = RefText -> <<"A", "1">>
      [] description = PayconiqText \o <<" ">> \o RefText -> <<"A", "1">>
      [] description = PayconiqText -> <<"a", "b", "1">>
      [] OTHER -> Null

\* C25: every transaction parseTransactionRow produces has as referenceNumber the
\* reference extracted from the description when there is one - the token after
\* 'REF. :', otherwise the hex token after 'Payconiq' - and the row's
\* transaction-number field otherwise.
C25_ReferenceDerivation ==
    (returned.called /\ returned.result.kind = "ok")
    => LET extracted == extractReference(OptionalTrim(argument.Mededelingen))
       IN  /\ extracted = ReferenceIn(argument.Mededelingen)
           /\ returned.result.transaction.referenceNumber
              = IF extracted # Null THEN extracted
                ELSE OptionalTrim(argument.Transactienummer)

\* A transaction has been produced from a description with both markers, the
\* Payconiq one first.
C25_Witness ==
    /\ returned.called /\ returned.result.kind = "ok"
    /\ argument.Mededelingen = PayconiqText \o <<" ">> \o RefText
    /\ argument.Transactienummer = <<"7">>
    /\ returned.result.transaction.referenceNumber = <<"A", "1">>

OptionalFields ==
    {"statementNumber", "transactionNumber", "valueDate", "counterpartAccount",
     "counterpartName", "counterpartAddress", "counterpartPostalCode",
     "counterpartCity", "transactionType", "bic", "countryCode", "description",
     "referenceNumber"}

\* C26: in every transaction parseTransactionRow produces, each optional field is
\* null or a non-empty string: never the empty string and never undefined.
C26_OptionalFieldsNullNeverEmpty ==
    (returned.called /\ returned.result.kind = "ok")
    => \A f \in OptionalFields :
          /\ returned.result.transaction[f] # <<>>
          /\ returned.result.transaction[f] # Undefined

\* C27: for every import that reaches its finalization, the log's
\* imported_records + skipped_records + error_records = total_records = the
\* number of transactions the parser returned, and the summary of the response
\* carries the same four values as the log.
C27_CountConservation ==
    \A r \in Requests :
        (logId[r] # 0 /\ import_logs[logId[r]].import_status = "completed")
        => LET log == import_logs[logId[r]]
           IN  /\ log.total_records = Len(parseResult[r].transactions)
               /\ log.imported_records + log.skipped_records + log.error_records
                  = log.total_records
               /\ Completed(r)
                  => response[r].summary
                     = [totalRecords |-> log.total_records,
                        imported     |-> log.imported_records,
                        skipped      |-> log.skipped_records,
                        errors       |-> log.error_records]

\* The long statement has been imported first: one row stored, eleven rejected.
C27_Witness ==
    \E r \in Requests :
        /\ Completed(r)
        /\ response[r].summary
           = [totalRecords |-> 12, imported |-> 1, skipped |-> 0, errors |-> 11]

\* C28: every row of the transactions table carries a file_hash for which an
\* import log exists: no step removes an import log or changes its file_hash, and
\* a row is inserted under the file_hash of a log that exists.
C28_TransactionsHaveImportLog ==
    /\ [](\A t \in transactions :
             \E k \in 1..Len(import_logs) : import_logs[k].file_hash = t.file_hash)
    /\ [][/\ Len(import_logs') >= Len(import_logs)
          /\ \A k \in 1..Len(import_logs) :
                import_logs'[k].file_hash = import_logs[k].file_hash]_vars

\* Rows of two files are stored, and a row that was imported has been deleted.
C28_Witness ==
    /\ \E s, t \in transactions : s.file_hash # t.file_hash
    /\ \E r \in Requests :
          counts[r].imported
          > Cardinality({t \in transactions : t.file_hash = md5(file[r])})

\* The rows of the transactions table that the file of request r has.
RowsOfFile(r) == {t \in transactions : t.file_hash = md5(file[r])}

\* Request r uploads again the bytes of an import that completed before it.
Reupload(r) ==
    /\ file[r] # NoFile
    /\ \E q \in 1..(r - 1) :
          /\ file[q] = file[r]
          /\ Done(q)
          /\ response[q].success

\* C29: deleting transactions of an imported file does not reopen the file: an
\* upload of the same bytes is answered with 409 and the existing log's summary,
\* and no step of it inserts a row.
C29_DeletionDoesNotReopenFile ==
    /\ [](\A r \in Requests :
             (Reupload(r) /\ Done(r) /\ Undisturbed(r))
             => /\ response[r].status = 409
                /\ response[r].error = AlreadyProcessed
                /\ ~response[r].success)
    /\ [][\A r \in Requests :
             (Reupload(r) /\ pc'[r] # pc[r]) => transactions' \subseteq transactions]_vars

\* A row of an imported file was deleted, and the file's second upload is answered.
C29_Witness ==
    \E r \in Requests :
        /\ Reupload(r)
        /\ Done(r)
        /\ response[r].status = 409
        /\ \E q \in 1..(r - 1) :
              /\ file[q] = file[r]
              /\ counts[q].imported > Cardinality(RowsOfFile(q))

\* C30: on a file whose header is the Belfius header in its standard order, the
\* positional-mapping variant of parseBelgianBankCSV returns what the header-name
\* variant returns: success with the same list of transactions, or failure.
C30_VariantsEquivalent ==
    returned.called
    => /\ returned.byPosition.success = returned.byName.success
       /\ (returned.byName.success
           => returned.byPosition.transactions = returned.byName.transactions)

\* The variants agree on every file whose first row is not a transaction row and
\* in which no row that is not blank follows the first transaction row without
\* being a transaction row itself.
C30_AgreeOffTheFirstRow ==
    (/\ returned.called
     /\ (Len(argument.data) > 0 => ~LooksLikeTransaction(argument.data[1]))
     /\ \A j, k \in 1..Len(argument.data) :
           (j < k /\ LooksLikeTransaction(argument.data[j]))
           => (LooksLikeTransaction(argument.data[k]) \/ IsBlankRow(argument.data[k])))
    => /\ returned.byPosition.success = returned.byName.success
       /\ (returned.byName.success
           => returned.byPosition.transactions = returned.byName.transactions)

\* The first data row is a transaction row, and the header-name variant succeeds.
C30_FirstRowIsTransaction ==
    /\ returned.called
    /\ Len(argument.data) > 0
    /\ LooksLikeTransaction(argument.data[1])
    /\ returned.byName.success

=============================================================================
